---- MODULE Spec2Model ----
(***************************************************************************)
(* Model of the GaslessTransfer component (transfer state machine) of the  *)
(* Lazorkit passkey wallet starter, together with the pure helpers it      *)
(* calls (validateTransfer, validateSolanaAddress, mapSDKError) and the    *)
(* toast notifications whose Retry callback it registers.                  *)
(*                                                                         *)
(* One action per event handler.  React re-renders between two events, so  *)
(* each handler reads the state left by the previous one; the state set by *)
(* several setState calls of one synchronous run is applied at once.       *)
(* executeTransfer is asynchronous: its run is cut at its suspension       *)
(* points (the RPC lookups, the signer call) and keeps the recipient and   *)
(* amount of the render in which Confirm Send was clicked.                 *)
(*                                                                         *)
(* The library functions validateTransfer, formatBalance and               *)
(* parseTransaction are also specified on their own (LibSpec): one call on *)
(* arguments drawn from the input sets, and the value it returns.  Texts   *)
(* that are formatted or parsed are sequences of characters; numbers that  *)
(* can be NaN, infinite or fractional are records (see Finite).            *)
(***************************************************************************)
EXTENDS Integers, FiniteSets, Sequences, Bags, TLC

\* ---------------------------------------------------------------- bounds
\* Number of executeTransfer runs that can be suspended at the same time.
MaxRuns == 2

\* Number of error toasts (with a Retry button) on screen at the same time.
MaxToasts == 1

\* ------------------------------------------------------------ input sets
NULL == "NULL"

\* Recipient texts typed into the address field: empty, a 32-byte key that
\* is off the ed25519 curve (a program-derived address), a wallet key.
Recipients == {"", "offCurvePda", "walletA"}

\* Amount texts typed into the number field.
AmountTexts == {"", "0.0000005", "1"}

\* Balance snapshots (smallest units) handed down by the dashboard page.
Balances == {0, 1000000}

\* Signatures the signer can return.
Signatures == {"sig1", "sig2"}

\* Messages of the errors thrown inside executeTransfer's try block.
InvalidPublicKeyMsg == "Invalid public key input"
NoRecipientAccountMsg == "Recipient does not have a USDC token account. They need to receive USDC from a funded wallet first to create their account."
BigIntNaNMsg == "The number NaN cannot be converted to a BigInt because it is not an integer"
UserCancelledMsg == "User cancelled the request"
FailedToFetchMsg == "Failed to fetch"

PreSubmitErrors == {NoRecipientAccountMsg}
SignerErrors == {UserCancelledMsg}

\* ------------------------------------------------------- pure functions
\* recipient.trim() === ''
IsBlank(r) == r \in {"", "   "}

\* new PublicKey(text) succeeds: base-58 text decoding to exactly 32 bytes.
PublicKeyOk(r) == r \in {"offCurvePda", "walletA"}

\* PublicKey.isOnCurve(bytes)
IsOnCurve(r) == r = "walletA"

validateSolanaAddress(address) ==
    IF address = "" THEN FALSE
    ELSE IF ~PublicKeyOk(address) THEN FALSE
    ELSE IsOnCurve(address)

\* parseFloat(text): NaN for text that does not start with a number.
IsNaN(a) == a = ""

\* parseFloat(text) * 1_000_000, scaled by 10 so that the half unit of
\* "0.0000005" stays an integer (value in tenths of a smallest unit).
TenthUnits(a) ==
    CASE a = "0.0000005" -> 5
      [] a = "1" -> 10000000
      [] OTHER -> 0

\* amountNum > 0 (false for NaN)
IsPositive(a) == ~IsNaN(a) /\ TenthUnits(a) > 0

\* Math.floor(parseFloat(amount) * 1_000_000)
SmallestUnits(a) == TenthUnits(a) \div 10

RecipientRequired == "Recipient address is required."
InvalidRecipient == "Invalid recipient address format."
AmountMustBePositive == "Amount must be greater than zero."
InsufficientBalance == "Insufficient USDC balance for this transfer."

\* A JavaScript number: NaN, an infinity, or a finite value.  A finite value
\* is held in tenths of a smallest USDC unit (value * 10^7), which is exact
\* for every decimal amount of the input sets.
NaN == [kind |-> "NaN", tenths |-> 0]
Infinity == [kind |-> "Infinity", tenths |-> 0]
NegInfinity == [kind |-> "-Infinity", tenths |-> 0]
Finite(tenths) == [kind |-> "finite", tenths |-> tenths]

\* parseFloat(amount) of the amount field
AmountNumber(a) == IF IsNaN(a) THEN NaN ELSE Finite(TenthUnits(a))

\* x <= 0 (false for NaN)
LeZero(x) ==
    \/ x.kind = "-Infinity"
    \/ x.kind = "finite" /\ x.tenths <= 0

\* Sign of the rounding error of the double product x * 1_000_000 against
\* the exact product, for the finite amounts of the input sets (IEEE 754
\* binary64, round to nearest): 4.03 * 1e6 is 4030000.0000000005 and
\* 2.01 * 1e6 is 2009999.9999999998; the other products that are whole
\* numbers of smallest units are exact.
RoundingError(tenths) ==
    CASE tenths = 40300000 -> 1
      [] tenths = 20100000 -> -1
      [] OTHER -> 0

\* x * 1_000_000 as the double it is: its integer part (floor) and whether
\* a fraction remains above it.
TimesMillion(x) ==
    IF x.kind # "finite" THEN [kind |-> x.kind, floor |-> 0, frac |-> FALSE]
    ELSE LET whole == x.tenths \div 10
             part == x.tenths % 10 # 0
             e == RoundingError(x.tenths)
         IN  IF e < 0 /\ ~part
             THEN [kind |-> "finite", floor |-> whole - 1, frac |-> TRUE]
             ELSE [kind |-> "finite", floor |-> whole, frac |-> part \/ e # 0]

\* p > balance for a product p and an integer balance (false for NaN)
ExceedsBalance(p, balance) ==
    \/ p.kind = "Infinity"
    \/ /\ p.kind = "finite"
       /\ (p.floor > balance \/ (p.floor = balance /\ p.frac))

\* Mutant: validateTransfer with the amount checks before the recipient
\* checks.
validateTransfer_AmountFirst(r, x, balance) ==
    IF LeZero(x) THEN AmountMustBePositive
    ELSE IF ExceedsBalance(TimesMillion(x), balance) THEN InsufficientBalance
    ELSE IF r = "" \/ IsBlank(r) THEN RecipientRequired
    ELSE IF ~PublicKeyOk(r) THEN InvalidRecipient
    ELSE NULL

\* validateTransfer(recipient, amount, balance)
validateTransfer(r, x, balance) ==
    IF r = "" \/ IsBlank(r) THEN RecipientRequired
    ELSE IF ~PublicKeyOk(r) THEN InvalidRecipient
    ELSE IF LeZero(x) THEN AmountMustBePositive
    ELSE IF ExceedsBalance(TimesMillion(x), balance) THEN InsufficientBalance
    ELSE NULL

\* The lower-cased keywords of mapError that a thrown message contains.
Keywords(msg) ==
    CASE msg = InvalidPublicKeyMsg -> {"invalid"}
      [] msg = UserCancelledMsg -> {"cancel"}
      [] msg = FailedToFetchMsg -> {"fetch"}
      [] msg = "User cancelled the operation" -> {"cancel"}
      [] msg = "USER CANCELLED" -> {"cancel"}
      [] msg = "Operation aborted by user" -> {"abort"}
      [] msg = "User denied authentication" -> {"user denied"}
      [] msg = "WebAuthn not supported" -> {"webauthn", "not supported"}
      [] msg = "Feature not supported" -> {"not supported"}
      [] msg = "Credential invalid" -> {"invalid"}
      [] msg = "Credential not found" -> {"not found"}
      [] msg = "No credential available" -> {"no credential"}
      [] msg = "Network error occurred" -> {"network"}
      [] msg = "Fetch failed" -> {"fetch"}
      [] msg = "Request timeout" -> {"timeout"}
      [] OTHER -> {}

Includes(msg, kw) == kw \in Keywords(msg)

mapErrorCode(msg) ==
    IF Includes(msg, "cancel") \/ Includes(msg, "abort") \/ Includes(msg, "user denied")
    THEN "USER_CANCELLED"
    ELSE IF Includes(msg, "invalid") \/ Includes(msg, "not found") \/ Includes(msg, "no credential")
    THEN "CREDENTIAL_INVALID"
    ELSE IF Includes(msg, "not supported") \/ Includes(msg, "webauthn")
    THEN "BROWSER_UNSUPPORTED"
    ELSE IF Includes(msg, "network") \/ Includes(msg, "fetch") \/ Includes(msg, "timeout")
            \/ Includes(msg, "service unavailable") \/ Includes(msg, "503")
            \/ Includes(msg, "failed to get payer")
    THEN "NETWORK_ERROR"
    ELSE "UNKNOWN"

AuthMessage(code) ==
    CASE code = "USER_CANCELLED" -> "Authentication cancelled. Click to try again."
      [] code = "CREDENTIAL_INVALID" -> "Passkey not recognized. Would you like to create a new wallet?"
      [] code = "BROWSER_UNSUPPORTED" -> "Your browser doesn't support passkeys. Please use Chrome, Safari, or Edge."
      [] code = "NETWORK_ERROR" -> "The Lazorkit paymaster service is currently unavailable. Please try again in a few minutes."
      [] OTHER -> "An unexpected error occurred. Please try again."

\* String(value) of a thrown value that is not an Error.
StringOf(v) ==
    CASE v.kind = "string" -> v.text
      [] v.kind = "object" -> "[object Object]"
      [] v.kind = "null" -> "null"
      [] v.kind = "undefined" -> "undefined"

\* An Error object with a message.
Error(message) == [kind |-> "Error", text |-> message]

\* mapError(error): the AuthError for a thrown value.
mapError(error) ==
    LET err == IF error.kind = "Error" THEN error ELSE Error(StringOf(error))
        code == mapErrorCode(err.text)
    IN  [code |-> code, message |-> AuthMessage(code), originalError |-> err]

\* mapSDKError(err).message
mapSDKError(msg) == AuthMessage(mapErrorCode(msg))

\* ----------------------------------------------------- decimal texts
\* A text of digits is a sequence of one-character strings.
DigitChars == <<"0", "1", "2", "3", "4", "5", "6", "7", "8", "9">>
DigitChar(d) == DigitChars[d + 1]
IsDigit(c) == \E d \in 0..9 : DigitChars[d + 1] = c
DigitValue(c) == CHOOSE d \in 0..9 : DigitChars[d + 1] = c

RECURSIVE Pow10(_)
Pow10(k) == IF k = 0 THEN 1 ELSE 10 * Pow10(k - 1)

\* Decimal digits of a non-negative integer, without leading zeros.
RECURSIVE Digits(_)
Digits(n) ==
    IF n < 10 THEN <<DigitChar(n)>>
    ELSE Append(Digits(n \div 10), DigitChar(n % 10))

\* The last `width` decimal digits of f, zero-padded on the left.
RECURSIVE FractionDigits(_, _)
FractionDigits(f, width) ==
    IF width = 0 THEN <<>>
    ELSE Append(FractionDigits(f \div 10, width - 1), DigitChar(f % 10))

\* Value of a sequence of digits.
RECURSIVE DecimalValue(_)
DecimalValue(ds) ==
    IF ds = <<>> THEN 0
    ELSE 10 * DecimalValue(SubSeq(ds, 1, Len(ds) - 1)) + DigitValue(ds[Len(ds)])

\* Length of the longest prefix of digits.
RECURSIVE LeadingDigits(_)
LeadingDigits(text) ==
    IF text = <<>> \/ ~IsDigit(Head(text)) THEN 0
    ELSE 1 + LeadingDigits(Tail(text))

\* Mutant: toFixed that drops the zeros at the end of the fraction.
toFixed_NoPadding(amount, divisor, digits) ==
    LET unit == divisor \div Pow10(digits)
        n == (amount \div unit) + (IF 2 * (amount % unit) >= unit THEN 1 ELSE 0)
        whole == n \div Pow10(digits)
        frac == n % Pow10(digits)
    IN  IF frac = 0 THEN Digits(whole)
        ELSE Digits(whole) \o <<".">> \o Digits(frac)

\* (amount / divisor).toFixed(digits): the multiple of 10^-digits nearest to
\* the quotient, written with exactly `digits` fraction digits.  A quotient
\* halfway between two multiples is decided by its binary value; the
\* amounts of the input sets are never halfway.
toFixed(amount, divisor, digits) ==
    LET unit == divisor \div Pow10(digits)
        n == (amount \div unit) + (IF 2 * (amount % unit) >= unit THEN 1 ELSE 0)
        whole == n \div Pow10(digits)
        frac == n % Pow10(digits)
    IN  Digits(whole) \o <<".">> \o FractionDigits(frac, digits)

LAMPORTS_PER_SOL == 1000000000
USDC_DECIMALS == 6
SOL_DISPLAY_DECIMALS == 4
USDC_DISPLAY_DECIMALS == 2

formatBalance(amount, token) ==
    IF token = "SOL"
    THEN toFixed(amount, LAMPORTS_PER_SOL, SOL_DISPLAY_DECIMALS)
    ELSE toFixed(amount, Pow10(USDC_DECIMALS), USDC_DISPLAY_DECIMALS)

\* parseFloat(text) of a decimal text: digits, then optionally a point and
\* more digits (at most seven, the resolution of a finite number here).
parseFloat(text) ==
    LET w == LeadingDigits(text)
        rest == SubSeq(text, w + 1, Len(text))
        f == IF rest # <<>> /\ Head(rest) = "." THEN LeadingDigits(Tail(rest)) ELSE 0
        frac == SubSeq(text, w + 2, w + 1 + f)
    IN  IF w = 0 THEN NaN
        ELSE Finite(DecimalValue(SubSeq(text, 1, w)) * Pow10(7)
                    + DecimalValue(frac) * Pow10(7 - f))

\* Math.floor(parseFloat(text) * 1_000_000), the conversion of the amount
\* field at submission; for SOL the same rule at nine places, where the
\* products of the input sets are exact.
toSmallestUnits(text, token) ==
    IF token = "SOL"
    THEN parseFloat(text).tenths * (LAMPORTS_PER_SOL \div Pow10(7))
    ELSE TimesMillion(parseFloat(text)).floor

\* parseInt(text, 10): the value of the leading digits, NaN without any.
parseInt(text) ==
    IF LeadingDigits(text) = 0 THEN NaN
    ELSE DecimalValue(SubSeq(text, 1, LeadingDigits(text)))

\* ------------------------------------------------------ parseTransaction
\* JavaScript truthiness of an optional string field.
Truthy(v) == v # NULL /\ v # ""

\* Mutant: the SOL branch decides the direction by the destination.
solTransfer_ByDestination(info, walletAddress, envelope) ==
    LET isSend == info.destination # walletAddress
    IN  envelope @@
        [type |-> IF isSend THEN "send" ELSE "receive",
         amount |-> info.lamports,
         token |-> "SOL",
         counterparty |-> IF isSend THEN info.destination ELSE info.source]

\* The Transaction returned for a system-program transfer.
solTransfer(info, walletAddress, envelope) ==
    LET isSend == info.source = walletAddress
    IN  envelope @@
        [type |-> IF isSend THEN "send" ELSE "receive",
         amount |-> info.lamports,
         token |-> "SOL",
         counterparty |-> IF isSend THEN info.destination ELSE info.source]

\* Mutant: the token branch decides the direction by the authority alone.
splTransfer_AuthorityOnly(info, walletAddress, envelope) ==
    LET isSend == info.authority = walletAddress
    IN  envelope @@
        [type |-> IF isSend THEN "send" ELSE "receive",
         amount |-> parseInt(info.amount),
         token |-> "USDC",
         counterparty |-> IF isSend THEN info.destination
                          ELSE IF Truthy(info.authority) THEN info.authority
                          ELSE info.source]

\* The Transaction returned for an spl-token transfer.
splTransfer(info, walletAddress, envelope) ==
    LET isSend == info.authority = walletAddress \/ info.source = walletAddress
    IN  envelope @@
        [type |-> IF isSend THEN "send" ELSE "receive",
         amount |-> parseInt(info.amount),
         token |-> "USDC",
         counterparty |-> IF isSend THEN info.destination
                          ELSE IF Truthy(info.authority) THEN info.authority
                          ELSE info.source]

\* The Transaction returned when no instruction is a transfer.
unknownTransaction(envelope) ==
    envelope @@ [type |-> "unknown", amount |-> 0, token |-> "SOL",
                 counterparty |-> ""]

isSolTransfer(instruction) ==
    instruction.parsed /\ instruction.type = "transfer" /\ instruction.program = "system"

isSplTransfer(instruction) ==
    instruction.parsed /\ instruction.type = "transfer" /\ instruction.program = "spl-token"

\* Mutant: the loop keeps the last matching instruction instead of
\* returning at the first one.
RECURSIVE scanInstructions_LastWins(_, _, _)
scanInstructions_LastWins(instructions, walletAddress, envelope) ==
    IF instructions = <<>> THEN unknownTransaction(envelope)
    ELSE LET instruction == instructions[Len(instructions)]
         IN  IF isSolTransfer(instruction)
             THEN solTransfer(instruction.info, walletAddress, envelope)
             ELSE IF isSplTransfer(instruction)
             THEN splTransfer(instruction.info, walletAddress, envelope)
             ELSE scanInstructions_LastWins(
                      SubSeq(instructions, 1, Len(instructions) - 1),
                      walletAddress, envelope)

\* The for loop of parseTransaction over the instructions that remain, and
\* the unknown record returned after it; envelope holds signature,
\* timestamp and status.
RECURSIVE scanInstructions(_, _, _)
scanInstructions(instructions, walletAddress, envelope) ==
    IF instructions = <<>> THEN unknownTransaction(envelope)
    ELSE LET instruction == Head(instructions)
         IN  IF isSolTransfer(instruction)
             THEN solTransfer(instruction.info, walletAddress, envelope)
             ELSE IF isSplTransfer(instruction)
             THEN splTransfer(instruction.info, walletAddress, envelope)
             ELSE scanInstructions(Tail(instructions), walletAddress, envelope)

\* An optional value: no element for null, one element for a value.
None == <<>>
Some(v) == <<v>>

\* Mutant: a record without a transfer instruction is dropped.
parseTransaction_DropsUnknown(tx, walletAddress, now) ==
    IF ~tx.meta \/ ~tx.transaction THEN None
    ELSE IF \A i \in 1..Len(tx.instructions) :
                ~isSolTransfer(tx.instructions[i]) /\ ~isSplTransfer(tx.instructions[i])
    THEN None
    ELSE Some(scanInstructions(tx.instructions, walletAddress,
                 [signature |-> tx.signature,
                  timestamp |-> IF tx.blockTime # 0 THEN tx.blockTime * 1000 ELSE now,
                  status |-> IF tx.err THEN "failed" ELSE "confirmed"]))

\* Mutant: the status does not look at meta.err.
parseTransaction_AlwaysConfirmed(tx, walletAddress, now) ==
    IF ~tx.meta \/ ~tx.transaction THEN None
    ELSE Some(scanInstructions(tx.instructions, walletAddress,
                 [signature |-> tx.signature,
                  timestamp |-> IF tx.blockTime # 0 THEN tx.blockTime * 1000 ELSE now,
                  status |-> "confirmed"]))

\* parseTransaction(tx, walletAddress), called at time `now` (Date.now()).
parseTransaction(tx, walletAddress, now) ==
    IF ~tx.meta \/ ~tx.transaction THEN None
    ELSE Some(scanInstructions(tx.instructions, walletAddress,
                 [signature |-> tx.signature,
                  timestamp |-> IF tx.blockTime # 0 THEN tx.blockTime * 1000 ELSE now,
                  status |-> IF tx.err THEN "failed" ELSE "confirmed"]))

\* ------------------------------------------------------------------ state
VARIABLES
    recipient,        \* useState('') - address field
    amount,           \* useState('') - amount field
    usdcBalance,      \* prop: balance snapshot in smallest units
    transferState,    \* 'idle' | 'confirming' | 'processing' | 'success' | 'error'
    validationError,  \* inline message, or NULL
    transactionError, \* message of the error modal, or NULL
    txSignature,      \* signature of the last successful transfer, or NULL
    runs,             \* bag of suspended executeTransfer runs: position and
                      \* the recipient and amount captured by the closure
    toasts,           \* error toasts on screen that carry the Retry callback
    notified,         \* the last step called onTransferComplete
    delivered,        \* what an external call delivered in the last step: a
                      \* signature, the message of a thrown error, or NULL
    recording,        \* whether the two history variables below are kept
    validated,        \* history: the request last accepted by handleSubmit
    lastEvent,        \* history: the form submit or modal dismissal handled
                      \* by the last step, if it handled one
    call,             \* a call of a library function: its name and arguments
    result,           \* what that call returned, once it has returned
    fetcher,          \* a run of getTransactionHistory
    dashboard,        \* the WalletDashboard component and its balance fetches
    historyView,      \* the TransactionHistory component and its fetches
    passkey           \* the PasskeyAuth component and its attempts

vars == <<recipient, amount, usdcBalance, transferState, validationError,
          transactionError, txSignature, runs, toasts, notified, delivered,
          recording, validated, lastEvent, call, result, fetcher, dashboard,
          historyView, passkey>>

\* The components and runs that are specified apart from GaslessTransfer.
otherVars == <<fetcher, dashboard, historyView, passkey>>

\* A component that is not mounted, a function that is not running.
Absent == [pc |-> "absent"]
NothingElse ==
    /\ fetcher = Absent
    /\ dashboard = Absent
    /\ historyView = Absent
    /\ passkey = Absent

\* A suspended run: awaiting the lookups ("rpc") or the signer ("signing").
Run(pc, r, a) == [pc |-> pc, recipient |-> r, amount |-> a]
RunRecords == [pc : {"rpc", "signing"},
               recipient : {r \in Recipients : PublicKeyOk(r)},
               amount : AmountTexts]
NoRequest == [recipient |-> NULL, amount |-> NULL, balance |-> 0]
NoEvent == "none"
Event(n) == IF recording THEN n ELSE NoEvent

\* The dashboard page renders GaslessTransfer only while the wallet is
\* connected, so the component never sees a null smartWalletPubkey.
smartWalletPubkey == TRUE

\* useWallet().isSigning: true while a signer call is outstanding.
isSigning == \E x \in BagToSet(runs) : x.pc = "signing"

\* Mutant: the form is disabled only while the SDK is signing.
isDisabled_OnlySigning == isSigning

isDisabled == transferState = "processing" \/ isSigning

\* validateForm, run by the effect after every change of its inputs.
validateForm(r, a, balance) ==
    IF r = "" /\ a = "" THEN NULL
    ELSE validateTransfer(r, IF IsNaN(a) THEN Finite(0) ELSE AmountNumber(a),
                          balance)

isFormValid ==
    /\ ~IsBlank(recipient)
    /\ validateSolanaAddress(recipient)
    /\ IsPositive(amount)
    /\ TenthUnits(amount) <= usdcBalance * 10

\* The component as mounted by the dashboard page.
Mounted ==
    /\ recipient = ""
    /\ amount = ""
    /\ usdcBalance = 0
    /\ transferState = "idle"
    /\ validationError = NULL
    /\ transactionError = NULL
    /\ txSignature = NULL
    /\ runs = EmptyBag
    /\ toasts = 0
    /\ notified = FALSE
    /\ delivered = NULL
    /\ validated = NoRequest
    /\ lastEvent = NoEvent

\* No library function is being called on its own.
NoCall == [fn |-> "none"]
Pending == [returned |-> FALSE]
Returned(v) == [returned |-> TRUE, value |-> v]


\* ---------------------------------------------------------------- actions
\* onChange of the address field (disabled while isDisabled), followed by
\* the validation effect.
SetRecipient(r) ==
    /\ ~isDisabled
    /\ r # recipient
    /\ recipient' = r
    /\ validationError' = validateForm(r, amount, usdcBalance)
    /\ lastEvent' = NoEvent
    /\ delivered' = NULL
    /\ UNCHANGED <<recording, call, result, otherVars>>
    /\ notified' = FALSE
    /\ UNCHANGED <<amount, usdcBalance, transferState, transactionError,
                   txSignature, runs, toasts, validated>>

\* onChange of the amount field (disabled while isDisabled), followed by
\* the validation effect.
SetAmount(a) ==
    /\ ~isDisabled
    /\ a # amount
    /\ amount' = a
    /\ validationError' = validateForm(recipient, a, usdcBalance)
    /\ lastEvent' = NoEvent
    /\ delivered' = NULL
    /\ UNCHANGED <<recording, call, result, otherVars>>
    /\ notified' = FALSE
    /\ UNCHANGED <<recipient, usdcBalance, transferState, transactionError,
                   txSignature, runs, toasts, validated>>

\* The dashboard page passes a new balance snapshot (its fetchUSDCBalance
\* resolved); the validation effect runs again.
BalanceUpdate(b) ==
    /\ b # usdcBalance
    /\ usdcBalance' = b
    /\ validationError' = validateForm(recipient, amount, b)
    /\ lastEvent' = NoEvent
    /\ delivered' = NULL
    /\ UNCHANGED <<recording, call, result, otherVars>>
    /\ notified' = FALSE
    /\ UNCHANGED <<recipient, amount, transferState, transactionError,
                   txSignature, runs, toasts, validated>>

\* disabled attribute of the submit button
submitDisabled == ~isFormValid \/ isDisabled

\* handleSubmit
handleSubmit ==
    IF isFormValid
    THEN /\ transferState' = "confirming"
         /\ validated' = IF recording
                          THEN [recipient |-> recipient, amount |-> amount,
                                balance |-> usdcBalance]
                          ELSE validated
    ELSE UNCHANGED <<transferState, validated>>

\* The user submits the form (Send USDC button, or Enter in a field).  A
\* disabled submit button blocks the submission before handleSubmit runs.
Submit ==
    /\ lastEvent' = Event("submit")
    /\ IF submitDisabled
       THEN UNCHANGED <<transferState, validated>>
       ELSE handleSubmit
    /\ delivered' = NULL
    /\ UNCHANGED <<recording, call, result, otherVars>>
    /\ notified' = FALSE
    /\ UNCHANGED <<recipient, amount, usdcBalance, validationError,
                   transactionError, txSignature, runs, toasts>>

\* Cancel button of the confirmation modal.
CancelConfirm ==
    /\ transferState = "confirming"
    /\ transferState' = "idle"
    /\ lastEvent' = NoEvent
    /\ delivered' = NULL
    /\ UNCHANGED <<recording, call, result, otherVars>>
    /\ notified' = FALSE
    /\ UNCHANGED <<recipient, amount, usdcBalance, validationError,
                   transactionError, txSignature, runs, toasts, validated>>

\* showError(message, retry): one more error toast with a Retry button; when
\* MaxToasts are on screen the oldest one has timed out by then.
showError(n) == IF n < MaxToasts THEN n + 1 ELSE MaxToasts

\* Mutant: the catch block also emits the refresh notification.
Catch_Notifies(msg) ==
    /\ transactionError' = mapSDKError(msg)
    /\ transferState' = "error"
    /\ toasts' = showError(toasts)
    /\ delivered' = msg
    /\ notified' = TRUE

\* Mutant: the catch block records the reason but leaves transferState.
Catch_KeepsState(msg) ==
    /\ transactionError' = mapSDKError(msg)
    /\ UNCHANGED transferState
    /\ toasts' = showError(toasts)
    /\ delivered' = msg
    /\ notified' = FALSE

\* The catch block of executeTransfer: map the caught error, show the error
\* modal and an error toast carrying the Retry callback.
Catch(msg) ==
    /\ transactionError' = mapSDKError(msg)
    /\ transferState' = "error"
    /\ toasts' = showError(toasts)
    /\ delivered' = msg
    /\ notified' = FALSE

Suspend(x) == runs (+) SetToBag({x})
Resume(x) == runs (-) SetToBag({x})

\* Confirm Send button of the confirmation modal: executeTransfer up to its
\* first await.
ConfirmSend ==
    /\ transferState = "confirming"
    /\ IF ~smartWalletPubkey
       THEN /\ transactionError' = "Wallet not connected"
            /\ transferState' = "error"
            /\ delivered' = NULL
            /\ notified' = FALSE
            /\ UNCHANGED <<runs, toasts>>
       ELSE IF ~PublicKeyOk(recipient)
       THEN /\ Catch(InvalidPublicKeyMsg)
            /\ UNCHANGED runs
       ELSE /\ BagCardinality(runs) < MaxRuns
            /\ transferState' = "processing"
            /\ transactionError' = NULL
            /\ runs' = Suspend(Run("rpc", recipient, amount))
            /\ delivered' = NULL
            /\ notified' = FALSE
            /\ UNCHANGED toasts
    /\ lastEvent' = NoEvent
    /\ UNCHANGED <<recipient, amount, usdcBalance, validationError,
                   txSignature, recording, validated,
                   call, result, otherVars>>

\* A lookup before submission fails (token-account lookups, missing token
\* account): the run ends in the catch block.
PreSubmitFails(x) ==
    /\ BagIn(x, runs)
    /\ x.pc = "rpc"
    /\ \E e \in PreSubmitErrors : Catch(e)
    /\ runs' = Resume(x)
    /\ lastEvent' = NoEvent
    /\ UNCHANGED <<recipient, amount, usdcBalance, validationError,
                   txSignature, recording, validated,
                   call, result, otherVars>>

\* The lookups succeeded: the transfer instruction is built from the run's
\* recipient and amount and handed to signAndSendTransaction.  Building it
\* from a NaN amount throws.
CallSigner(x) ==
    /\ BagIn(x, runs)
    /\ x.pc = "rpc"
    /\ IF IsNaN(x.amount)
       THEN /\ Catch(BigIntNaNMsg)
            /\ runs' = Resume(x)
            /\ lastEvent' = NoEvent
       ELSE /\ runs' = Resume(x) (+) SetToBag({Run("signing", x.recipient, x.amount)})
            /\ lastEvent' = NoEvent
            /\ delivered' = NULL
            /\ notified' = FALSE
            /\ UNCHANGED <<transferState, transactionError, toasts>>
    /\ UNCHANGED <<recipient, amount, usdcBalance, validationError,
                   txSignature, recording, validated,
                   call, result, otherVars>>

\* signAndSendTransaction resolves with a signature: the success modal, and
\* the onTransferComplete notification.
SignerReturns(x) ==
    /\ BagIn(x, runs)
    /\ x.pc = "signing"
    /\ \E sig \in Signatures :
         /\ txSignature' = sig
         /\ delivered' = sig
    /\ transferState' = "success"
    /\ notified' = TRUE
    /\ runs' = Resume(x)
    /\ lastEvent' = NoEvent
    /\ UNCHANGED <<recipient, amount, usdcBalance, validationError,
                   transactionError, toasts, recording, validated,
                   call, result, otherVars>>

\* signAndSendTransaction rejects.
SignerThrows(x) ==
    /\ BagIn(x, runs)
    /\ x.pc = "signing"
    /\ \E e \in SignerErrors : Catch(e)
    /\ runs' = Resume(x)
    /\ lastEvent' = NoEvent
    /\ UNCHANGED <<recipient, amount, usdcBalance, validationError,
                   txSignature, recording, validated,
                   call, result, otherVars>>

\* Mutant: resetForm without setTxSignature(null).
resetForm_KeepsSignature ==
    /\ recipient' = ""
    /\ amount' = ""
    /\ transferState' = "idle"
    /\ validationError' = NULL
    /\ transactionError' = NULL
    /\ UNCHANGED txSignature

\* resetForm, with the validation effect on the emptied fields.
resetForm ==
    /\ recipient' = ""
    /\ amount' = ""
    /\ transferState' = "idle"
    /\ validationError' = NULL
    /\ transactionError' = NULL
    /\ txSignature' = NULL

\* Done button of the success modal (rendered only with a signature).
Done ==
    /\ transferState = "success"
    /\ txSignature # NULL
    /\ resetForm
    /\ lastEvent' = Event("done")
    /\ delivered' = NULL
    /\ UNCHANGED <<recording, call, result, otherVars>>
    /\ notified' = FALSE
    /\ UNCHANGED <<usdcBalance, runs, toasts, validated>>

\* Cancel button of the error modal.
CancelError ==
    /\ transferState = "error"
    /\ resetForm
    /\ lastEvent' = Event("cancelError")
    /\ delivered' = NULL
    /\ UNCHANGED <<recording, call, result, otherVars>>
    /\ notified' = FALSE
    /\ UNCHANGED <<usdcBalance, runs, toasts, validated>>

\* Try Again button of the error modal.
TryAgain ==
    /\ transferState = "error"
    /\ transferState' = "confirming"
    /\ lastEvent' = NoEvent
    /\ delivered' = NULL
    /\ UNCHANGED <<recording, call, result, otherVars>>
    /\ notified' = FALSE
    /\ UNCHANGED <<recipient, amount, usdcBalance, validationError,
                   transactionError, txSignature, runs, toasts, validated>>

\* Retry button of an error toast: handleAction runs the callback
\* registered by executeTransfer's catch block, then hides the toast.
ToastRetry ==
    /\ toasts > 0
    /\ transferState' = "confirming"
    /\ toasts' = toasts - 1
    /\ lastEvent' = NoEvent
    /\ delivered' = NULL
    /\ UNCHANGED <<recording, call, result, otherVars>>
    /\ notified' = FALSE
    /\ UNCHANGED <<recipient, amount, usdcBalance, validationError,
                   transactionError, txSignature, runs, validated>>

\* An error toast leaves the screen: its 4 s timer fires or its close
\* button is clicked.
ToastGone ==
    /\ toasts > 0
    /\ toasts' = toasts - 1
    /\ lastEvent' = NoEvent
    /\ delivered' = NULL
    /\ UNCHANGED <<recording, call, result, otherVars>>
    /\ notified' = FALSE
    /\ UNCHANGED <<recipient, amount, usdcBalance, transferState,
                   validationError, transactionError, txSignature, runs, validated>>

Init ==
    /\ Mounted
    /\ recording = TRUE
    /\ call = NoCall
    /\ result = Pending
    /\ NothingElse

\* The same component, without the history of events and requests.
InitFair ==
    /\ Mounted
    /\ recording = FALSE
    /\ call = NoCall
    /\ result = Pending
    /\ NothingElse

Next ==
    \/ \E r \in Recipients : SetRecipient(r)
    \/ \E a \in AmountTexts : SetAmount(a)
    \/ \E b \in Balances : BalanceUpdate(b)
    \/ Submit
    \/ CancelConfirm
    \/ ConfirmSend
    \/ \E x \in RunRecords : PreSubmitFails(x)
    \/ \E x \in RunRecords : CallSigner(x)
    \/ \E x \in RunRecords : SignerReturns(x)
    \/ \E x \in RunRecords : SignerThrows(x)
    \/ Done
    \/ CancelError
    \/ TryAgain
    \/ ToastRetry
    \/ ToastGone

Spec == Init /\ [][Next]_vars

\* An external call of a suspended run returns or throws.
Settle == \E x \in RunRecords :
    PreSubmitFails(x) \/ CallSigner(x) \/ SignerReturns(x) \/ SignerThrows(x)

\* Every outstanding external call eventually returns or throws.
FairSpec == InitFair /\ [][Next]_vars /\ WF_vars(Settle)

\* ------------------------------------------------- library functions
\* Length of the instruction lists of the raw records.
MaxInstructions == 3

\* Recipient texts handed to validateTransfer: empty, blanks, text that is
\* not base-58, base-58 text of fewer than 32 bytes, an off-curve key, a
\* wallet key.
CallRecipients == {"", "   ", "invalid-address", "shortKey", "offCurvePda", "walletA"}

\* Amounts handed to validateTransfer: NaN, the infinities, -5, 0,
\* 0.0000005, 1, 1.0000005, 2.01, 4.03, 100, 100.000001, 200.
CallAmounts ==
    {NaN, Infinity, NegInfinity} \cup
    {Finite(t) : t \in {-50000000, 0, 5, 10000000, 10000005, 20100000,
                        40300000, 1000000000, 1000000010, 2000000000}}

\* Balance snapshots handed to validateTransfer.
CallBalances == {0, 1000000, 4030000, 100000000}

\* Amounts handed to formatBalance, in smallest units of each token.
UsdcAmounts == {0, 1, 4999, 5001, 10000, 290000, 1000000, 1234567, 2010000,
                100000000, 200000000}
LamportAmounts == {0, 1, 49999, 50001, 100000, 1000000000, 1234567890,
                   2000000000}

\* The wallet whose history is classified.
Owner == "walletA"

NoInfo == [source |-> NULL, destination |-> NULL, authority |-> NULL,
           lamports |-> 0, amount |-> <<>>]

\* A parsed system-program transfer of the RPC's jsonParsed encoding.
SystemTransfer(from, to, lamports) ==
    [parsed |-> TRUE, program |-> "system", type |-> "transfer", units |-> lamports,
     info |-> [NoInfo EXCEPT !.source = from, !.destination = to,
                             !.lamports = lamports]]

\* A parsed spl-token transfer; the RPC writes the u64 amount as decimal
\* text.
TokenTransfer(from, to, authority, units) ==
    [parsed |-> TRUE, program |-> "spl-token", type |-> "transfer", units |-> units,
     info |-> [NoInfo EXCEPT !.source = from, !.destination = to,
                             !.authority = authority, !.amount = Digits(units)]]

\* Instructions that are not transfers for parseTransaction: a parsed
\* instruction of another type, a token transferChecked, an instruction
\* the RPC could not parse.
OtherInstructions ==
    {[parsed |-> TRUE, program |-> "system", type |-> "createAccount",
      units |-> 0, info |-> [NoInfo EXCEPT !.source = Owner]],
     [parsed |-> TRUE, program |-> "spl-token", type |-> "transferChecked",
      units |-> 0, info |-> [NoInfo EXCEPT !.source = "ataA", !.authority = Owner]],
     [parsed |-> FALSE, program |-> "unknown", type |-> NULL,
      units |-> 0, info |-> NoInfo]}

Instructions ==
    {SystemTransfer(Owner, "walletB", 5000),
     SystemTransfer("walletB", Owner, 7),
     SystemTransfer("walletB", "walletC", 9),
     TokenTransfer("ataA", "ataB", Owner, 1500000),
     TokenTransfer("ataB", "ataA", "walletB", 42),
     TokenTransfer(Owner, "ataB", NULL, 3),
     TokenTransfer("ataB", "ataA", NULL, 250)} \cup OtherInstructions

InstructionLists == UNION {[1..n -> Instructions] : n \in 0..MaxInstructions}

\* Raw records: with or without meta and transaction body, failed or not,
\* with a block time (seconds) or without one.
RawRecords ==
    [meta : BOOLEAN, transaction : BOOLEAN, err : BOOLEAN,
     blockTime : {0, 1700}, signature : {"sigA"},
     instructions : InstructionLists]

\* Values of Date.now() (milliseconds) at which a record is classified.
Times == {1800000, 1900000}

\* Values handed to mapSDKError: Errors with the messages of the SDK and
\* of WebAuthn, and thrown values that are not Errors.
ThrownValues ==
    {Error(m) : m \in {"User cancelled the operation", "USER CANCELLED",
                       "Operation aborted by user", "User denied authentication",
                       "WebAuthn not supported", "Feature not supported",
                       "Credential invalid", "Credential not found",
                       "No credential available", "Network error occurred",
                       "Fetch failed", "Request timeout",
                       "Something unexpected happened"}}
    \cup {[kind |-> "string", text |-> "string error"],
          [kind |-> "string", text |-> "Request timeout"],
          [kind |-> "object", text |-> NULL],
          [kind |-> "null", text |-> NULL],
          [kind |-> "undefined", text |-> NULL]}

MapErrorCalls == [fn : {"mapSDKError"}, error : ThrownValues]

ValidateCalls ==
    [fn : {"validateTransfer"}, recipient : CallRecipients,
     amount : CallAmounts, balance : CallBalances]

FormatCalls ==
    [fn : {"formatBalance"}, amount : UsdcAmounts, token : {"USDC"}]
    \cup [fn : {"formatBalance"}, amount : LamportAmounts, token : {"SOL"}]

ParseCalls ==
    [fn : {"parseTransaction"}, tx : RawRecords, walletAddress : {Owner},
     now : Times]

\* Balances at which the MAX button is clicked, in smallest units.
MaxBalances == {1, 4999, 5001, 9999, 1000000, 1234567, 2500000}

MaxCalls == [fn : {"maxAmount"}, usdcBalance : MaxBalances]

\* One call of a library function on arguments of the input sets; the
\* component stays as mounted.
InitLib ==
    /\ Mounted
    /\ recording = FALSE
    /\ call \in ValidateCalls \cup FormatCalls \cup ParseCalls \cup MapErrorCalls
                \cup MaxCalls
    /\ result = Pending
    /\ NothingElse

componentVars == <<recipient, amount, usdcBalance, transferState,
                   validationError, transactionError, txSignature, runs,
                   toasts, notified, delivered, recording, validated,
                   lastEvent>>

CallValidateTransfer ==
    /\ call.fn = "validateTransfer"
    /\ ~result.returned
    /\ result' = Returned(validateTransfer(call.recipient, call.amount, call.balance))
    /\ UNCHANGED <<call, componentVars, otherVars>>

CallFormatBalance ==
    /\ call.fn = "formatBalance"
    /\ ~result.returned
    /\ result' = Returned(formatBalance(call.amount, call.token))
    /\ UNCHANGED <<call, componentVars, otherVars>>

CallParseTransaction ==
    /\ call.fn = "parseTransaction"
    /\ ~result.returned
    /\ result' = Returned(parseTransaction(call.tx, call.walletAddress, call.now))
    /\ UNCHANGED <<call, componentVars, otherVars>>

CallMapSDKError ==
    /\ call.fn = "mapSDKError"
    /\ ~result.returned
    /\ result' = Returned(mapError(call.error))
    /\ UNCHANGED <<call, componentVars, otherVars>>

\* The amount the MAX button sets: (usdcBalance / 1_000_000).toFixed(2)
maxAmount(balance) == toFixed(balance, Pow10(USDC_DECIMALS), 2)

\* A click on MAX: setAmount(...) with the balance of the render.
CallMaxAmount ==
    /\ call.fn = "maxAmount"
    /\ ~result.returned
    /\ result' = Returned(maxAmount(call.usdcBalance))
    /\ UNCHANGED <<call, componentVars, otherVars>>

NextLib ==
    \/ CallValidateTransfer
    \/ CallFormatBalance
    \/ CallParseTransaction
    \/ CallMapSDKError
    \/ CallMaxAmount

LibSpec == InitLib /\ [][NextLib]_vars

TypeOK ==
    /\ recipient \in Recipients
    /\ amount \in AmountTexts
    /\ usdcBalance \in Balances
    /\ transferState \in {"idle", "confirming", "processing", "success", "error"}
    /\ txSignature \in Signatures \cup {NULL}
    /\ toasts \in 0..MaxToasts
    /\ notified \in BOOLEAN
    /\ BagCardinality(runs) <= MaxRuns
    /\ BagToSet(runs) \subseteq RunRecords


\* ------------------------------------------------------------ properties
LegalTransitions ==
    {<<"idle", "confirming">>, <<"confirming", "processing">>,
     <<"confirming", "idle">>, <<"processing", "success">>,
     <<"processing", "error">>, <<"success", "idle">>,
     <<"error", "confirming">>, <<"error", "idle">>}

\* C1: transferState changes only along the eight transitions of the state
\* machine (Idle->Confirming, Confirming->Processing, Confirming->Idle,
\* Processing->Success, Processing->Error, Success->Idle, Error->Confirming,
\* Error->Idle).
C1_OnlyLegalTransitions ==
    [][transferState' # transferState
         => <<transferState, transferState'>> \in LegalTransitions]_vars

\* C2: at most one executeTransfer run (and so at most one signer call) is
\* outstanding in every reachable state.
C2_SingleFlight == BagCardinality(runs) <= 1

\* C3: a form submit attempted while transferState is Confirming or
\* Processing changes neither transferState, recipient, amount nor
\* txSignature, and starts no run and no signer call.
C3_SubmitRejected ==
    [][(lastEvent' = "submit" /\ transferState \in {"confirming", "processing"})
         => UNCHANGED <<transferState, recipient, amount, txSignature, runs>>]_vars

\* A submit was attempted while a transfer was Processing.
C3_Witness == lastEvent = "submit" /\ transferState = "processing"

\* A step in which signAndSendTransaction is called.
SignerCalled ==
    \E x \in RunRecords :
        x.pc = "signing" /\ CopiesIn(x, runs') > CopiesIn(x, runs)

\* C4: whenever signAndSendTransaction is called, transferState is
\* Processing.
C4_SignerOnlyInProcessing ==
    [][SignerCalled => transferState = "processing"]_vars

\* C5: onTransferComplete is emitted in exactly the steps in which a signer
\* call returns a signature and puts the machine in Success with that
\* signature; no step of a failure path, cancel, dismiss or retry emits it.
C5_RefreshOnlyOnSuccess ==
    [][notified' <=> (/\ delivered' \in Signatures
                      /\ transferState' = "success"
                      /\ txSignature' = delivered')]_vars

\* The notification was emitted by the step that entered Success.
C5_Witness == notified /\ transferState = "success" /\ txSignature \in Signatures

\* The failure reason the error modal must hold for a caught error.
ExpectedReason(msg) ==
    CASE msg = UserCancelledMsg -> "Authentication cancelled. Click to try again."
      [] msg = InvalidPublicKeyMsg -> "Passkey not recognized. Would you like to create a new wallet?"
      [] msg = FailedToFetchMsg -> "The Lazorkit paymaster service is currently unavailable. Please try again in a few minutes."
      [] OTHER -> "An unexpected error occurred. Please try again."

ThrownErrors == PreSubmitErrors \cup SignerErrors \cup {InvalidPublicKeyMsg, BigIntNaNMsg}

\* C6: every entry into Processing is eventually followed by Success holding
\* the signature the signer returned or by Error holding the mapped reason
\* of what was thrown, and the machine is never in Processing without an
\* outstanding external call.
C6_ProcessingSettles ==
    /\ [](delivered \in Signatures
            => transferState = "success" /\ txSignature = delivered)
    /\ [](delivered \in ThrownErrors
            => transferState = "error" /\ transactionError = ExpectedReason(delivered))
    /\ [](transferState = "processing" => runs # EmptyBag)
    /\ (transferState = "processing")
         ~> (transferState \in {"success", "error"} /\ delivered # NULL)

\* A run that entered Processing ended in the error modal.
C6_Witness ==
    /\ transferState = "error"
    /\ delivered = UserCancelledMsg
    /\ transactionError = "Authentication cancelled. Click to try again."

\* C7: in every state where transferState is Confirming, txSignature is
\* null.
C7_ConfirmingHasNoSignature ==
    transferState = "confirming" => txSignature = NULL

\* C8: dismissing a terminal state (Done on Success, Cancel on Error) leaves
\* the machine Idle with empty recipient and amount and with txSignature,
\* transactionError and validationError null.
C8_DismissClears ==
    lastEvent \in {"done", "cancelError"}
        => /\ transferState = "idle"
           /\ recipient = "" /\ amount = ""
           /\ txSignature = NULL
           /\ transactionError = NULL
           /\ validationError = NULL

\* The success modal was dismissed after fields had been filled in.
C8_Witness == lastEvent = "done" /\ transferState = "idle" /\ validated # NoRequest

\* C9: after a submit from Idle of a request (at least one field filled in)
\* that fails validation, transferState is Idle, no run was started, and
\* the inline message is the validator's reason for rejecting it.
C9_InvalidSubmitShowsReason ==
    (/\ lastEvent = "submit"
     /\ transferState = "idle"
     /\ ~(recipient = "" /\ amount = "")
     /\ ~isFormValid)
        => /\ validationError # NULL
           /\ validationError =
                validateTransfer(recipient,
                                 IF IsNaN(amount) THEN Finite(0)
                                 ELSE AmountNumber(amount),
                                 usdcBalance)

\* C10: the recipient and amount handed to the signer are those of the
\* request that passed validation.
C10_SignerGetsValidatedRequest ==
    \A x \in BagToSet(runs) :
        x.pc = "signing"
            => x.recipient = validated.recipient /\ x.amount = validated.amount

\* The cancel the user has while a transfer is in progress: dismissing the
\* signer's ceremony, which makes signAndSendTransaction reject.
UserCancel == \E x \in RunRecords : SignerThrows(x)

\* C11: in every Processing state a user-initiated cancel is on offer, and
\* taking it leaves Processing for Error with the cancellation reason.
C11_CancelOffered ==
    transferState = "processing" => ENABLED UserCancel

\* A call of validateTransfer that has returned.
ValidateReturned == call.fn = "validateTransfer" /\ result.returned

\* The reasons of validateTransfer in the order of its checks, and whether
\* each check, taken on its own, fails for the arguments of the call.
Reasons == <<RecipientRequired, InvalidRecipient, AmountMustBePositive,
             InsufficientBalance>>
CheckFails ==
    <<call.recipient = "" \/ IsBlank(call.recipient),
      ~PublicKeyOk(call.recipient),
      LeZero(call.amount),
      ExceedsBalance(TimesMillion(call.amount), call.balance)>>
FailedChecks == {i \in 1..4 : CheckFails[i]}

\* C12: validateTransfer returns the reason of the first of its four checks
\* (recipient required, invalid recipient, amount must be positive,
\* insufficient balance) that fails, and null only when none fails.
C12_FirstFailureWins ==
    ValidateReturned =>
        IF FailedChecks = {} THEN result.value = NULL
        ELSE \E i \in FailedChecks :
                /\ \A j \in FailedChecks : i <= j
                /\ result.value = Reasons[i]

\* A malformed recipient with an amount above the balance was reported as
\* an invalid recipient.
C12_Witness ==
    /\ ValidateReturned
    /\ call.recipient = "invalid-address"
    /\ FailedChecks = {2, 4}
    /\ result.value = InvalidRecipient

\* C13: for a valid recipient and a positive amount, validateTransfer
\* reports insufficient balance exactly when floor(amount * 10^6) is
\* greater than the balance, and returns no error otherwise.
C13_InsufficientIffFloorExceeds ==
    (/\ ValidateReturned
     /\ validateSolanaAddress(call.recipient)
     /\ call.amount.kind = "finite"
     /\ call.amount.tenths > 0)
        => /\ result.value = InsufficientBalance
                <=> (call.amount.tenths \div 10) > call.balance
           /\ result.value \in {InsufficientBalance, NULL}

\* C14: validateTransfer reports an invalid recipient for every non-blank
\* recipient that validateSolanaAddress rejects, and accepts a recipient
\* only if validateSolanaAddress accepts it.
C14_RejectsWhatDecodeRejects ==
    ValidateReturned =>
        /\ (~IsBlank(call.recipient) /\ ~validateSolanaAddress(call.recipient))
              => result.value = InvalidRecipient
        /\ result.value = NULL => validateSolanaAddress(call.recipient)

\* C15: for a valid recipient, validateTransfer returns a reason whenever
\* the amount is negative, NaN or infinite.
C15_BadAmountIsError ==
    (/\ ValidateReturned
     /\ validateSolanaAddress(call.recipient)
     /\ (call.amount.kind # "finite" \/ call.amount.tenths < 0))
        => result.value # NULL

\* A call of formatBalance that has returned.
FormatReturned == call.fn = "formatBalance" /\ result.returned

\* C16: the text returned by formatBalance is digits, one decimal point and
\* then exactly 4 digits for SOL and exactly 2 for USDC; zero is "0.0000"
\* and "0.00".
C16_FixedFractionDigits ==
    FormatReturned =>
        LET text == result.value
            places == IF call.token = "SOL" THEN 4 ELSE 2
            point == Len(text) - places
        IN  /\ point >= 2
            /\ text[point] = "."
            /\ \A i \in 1..Len(text) : i # point => IsDigit(text[i])
            /\ call.amount = 0 =>
                 text = IF call.token = "SOL"
                        THEN <<"0", ".", "0", "0", "0", "0">>
                        ELSE <<"0", ".", "0", "0">>

\* One USDC was written with its two zero fraction digits.
C16_Witness ==
    /\ FormatReturned
    /\ call.token = "USDC"
    /\ call.amount = 1000000
    /\ result.value = <<"1", ".", "0", "0">>

\* C17: converting the text of formatBalance back to smallest units gives
\* the amount that was formatted.
C17_FormatRoundTrip ==
    FormatReturned => toSmallestUnits(result.value, call.token) = call.amount

\* A call of parseTransaction that returned a Transaction.
Classified ==
    /\ call.fn = "parseTransaction"
    /\ result.returned
    /\ result.value # None

\* Positions of the instructions of the record that are transfers of the
\* system program or of the token program, and the first of them.
TransferPositions ==
    {i \in 1..Len(call.tx.instructions) :
        /\ call.tx.instructions[i].parsed
        /\ call.tx.instructions[i].type = "transfer"
        /\ call.tx.instructions[i].program \in {"system", "spl-token"}}
FirstTransfer ==
    call.tx.instructions[CHOOSE i \in TransferPositions :
                            \A j \in TransferPositions : i <= j]

\* What a Transaction says about the transfer.
Classification(t) ==
    [type |-> t.type, token |-> t.token, amount |-> t.amount,
     counterparty |-> t.counterparty]

\* C18: a record with transfer instructions is classified by the first of
\* them alone: as the record holding only that instruction would be, SOL
\* for a system transfer and USDC for a token transfer.
C18_FirstTransferWins ==
    (Classified /\ TransferPositions # {}) =>
        /\ Classification(result.value[1]) =
             Classification(parseTransaction(
                 [call.tx EXCEPT !.instructions = <<FirstTransfer>>],
                 call.walletAddress, call.now)[1])
        /\ result.value[1].token =
             IF FirstTransfer.program = "system" THEN "SOL" ELSE "USDC"

\* A record with an instruction that is no transfer, then a token transfer,
\* then a system transfer was classified as the token transfer.
C18_Witness ==
    /\ Classified
    /\ Len(call.tx.instructions) = 3
    /\ TransferPositions = {2, 3}
    /\ call.tx.instructions[2].program = "spl-token"
    /\ call.tx.instructions[3].program = "system"
    /\ result.value[1].token = "USDC"

\* C19: a record whose first transfer is a system transfer is a send to the
\* destination exactly when the source is the owner, and otherwise a
\* receive from the source; the token is SOL and the amount the lamports.
C19_NativeDirection ==
    (Classified /\ TransferPositions # {} /\ FirstTransfer.program = "system") =>
        LET t == result.value[1]
            info == FirstTransfer.info
        IN  /\ t.type = "send" <=> info.source = call.walletAddress
            /\ t.type \in {"send", "receive"}
            /\ t.counterparty =
                 IF t.type = "send" THEN info.destination ELSE info.source
            /\ t.token = "SOL"
            /\ t.amount = FirstTransfer.units

\* A system transfer between two other wallets was classified as a receive
\* from its source.
C19_Witness ==
    /\ Classified
    /\ TransferPositions # {}
    /\ FirstTransfer.program = "system"
    /\ FirstTransfer.info.source = "walletB"
    /\ FirstTransfer.info.destination = "walletC"
    /\ result.value[1].type = "receive"
    /\ result.value[1].counterparty = "walletB"

\* C20: a record whose first transfer is a token transfer is a send to the
\* destination exactly when the authority or the source is the owner, and
\* otherwise a receive from the authority if there is one, else from the
\* source; the token is USDC and the amount the instruction's amount.
C20_TokenDirection ==
    (Classified /\ TransferPositions # {} /\ FirstTransfer.program = "spl-token") =>
        LET t == result.value[1]
            info == FirstTransfer.info
        IN  /\ t.type = "send" <=> (\/ info.authority = call.walletAddress
                                    \/ info.source = call.walletAddress)
            /\ t.type \in {"send", "receive"}
            /\ t.counterparty =
                 IF t.type = "send" THEN info.destination
                 ELSE IF info.authority # NULL THEN info.authority
                 ELSE info.source
            /\ t.token = "USDC"
            /\ t.amount = FirstTransfer.units

\* A token transfer without an authority whose source is the owner was
\* classified as a send to its destination.
C20_Witness ==
    /\ Classified
    /\ TransferPositions # {}
    /\ FirstTransfer.program = "spl-token"
    /\ FirstTransfer.info.authority = NULL
    /\ FirstTransfer.info.source = Owner
    /\ result.value[1].type = "send"
    /\ result.value[1].counterparty = "ataB"
    /\ result.value[1].amount = 3

\* A call of parseTransaction that has returned.
ParseReturned == call.fn = "parseTransaction" /\ result.returned

\* C21: parseTransaction returns null only for a record without meta or
\* without transaction body; every other record without a transfer
\* instruction is returned as unknown, amount 0, no counterparty, SOL.
C21_UnknownNotDropped ==
    ParseReturned =>
        /\ result.value = None <=> (~call.tx.meta \/ ~call.tx.transaction)
        /\ (result.value # None /\ TransferPositions = {}) =>
              Classification(result.value[1]) =
                 [type |-> "unknown", token |-> "SOL", amount |-> 0,
                  counterparty |-> ""]

\* A record holding only instructions that are no transfers was returned as
\* an unknown transaction.
C21_Witness ==
    /\ ParseReturned
    /\ Len(call.tx.instructions) = 2
    /\ TransferPositions = {}
    /\ result.value # None
    /\ result.value[1].type = "unknown"

\* C22: the status of every Transaction returned by parseTransaction is
\* failed exactly when meta.err is set and confirmed otherwise, never
\* pending.
C22_StatusFromMetaErr ==
    Classified =>
        /\ result.value[1].status = "failed" <=> call.tx.err
        /\ result.value[1].status = "confirmed" <=> ~call.tx.err

\* A failed record with a token transfer was returned with status failed.
C22_Witness ==
    /\ Classified
    /\ call.tx.err
    /\ TransferPositions # {}
    /\ result.value[1].token = "USDC"
    /\ result.value[1].status = "failed"

\* C23: the signature and timestamp of a returned Transaction are those of
\* the raw record: classifying the same record for the same owner at any
\* other time gives the same signature and timestamp.
C23_EnvelopeFromRecordAlone ==
    Classified =>
        \A t \in Times :
            LET other == parseTransaction(call.tx, call.walletAddress, t)[1]
            IN  /\ other.signature = result.value[1].signature
                /\ other.timestamp = result.value[1].timestamp

\* The codes whose keywords occur in the message of an Error, and the user
\* message fixed for each code.
KeywordCodes(msg) ==
    {c \in {"USER_CANCELLED", "BROWSER_UNSUPPORTED", "CREDENTIAL_INVALID",
            "NETWORK_ERROR"} :
        \E kw \in Keywords(msg) :
            kw \in (CASE c = "USER_CANCELLED" -> {"cancel", "abort", "user denied"}
                      [] c = "BROWSER_UNSUPPORTED" -> {"not supported", "webauthn"}
                      [] c = "CREDENTIAL_INVALID" -> {"invalid", "not found", "no credential"}
                      [] c = "NETWORK_ERROR" -> {"network", "fetch", "timeout"})}
UserMessage(code) ==
    CASE code = "USER_CANCELLED" -> "Authentication cancelled. Click to try again."
      [] code = "BROWSER_UNSUPPORTED" -> "Your browser doesn't support passkeys. Please use Chrome, Safari, or Edge."
      [] code = "CREDENTIAL_INVALID" -> "Passkey not recognized. Would you like to create a new wallet?"
      [] code = "NETWORK_ERROR" -> "Network error. Please check your connection and try again."
      [] OTHER -> "An unexpected error occurred. Please try again."

\* C24: mapSDKError returns the code named by the keywords of an Error's
\* message, UNKNOWN for a message without keywords and for every value that
\* is not an Error, with the user message fixed for that code and with the
\* Error itself (or an Error wrapping the value) as originalError.
C24_MapsToCodeAndMessage ==
    (call.fn = "mapSDKError" /\ result.returned) =>
        LET e == call.error
            r == result.value
        IN  /\ IF e.kind = "Error" /\ KeywordCodes(e.text) # {}
               THEN r.code \in KeywordCodes(e.text)
               ELSE r.code = "UNKNOWN"
            /\ r.message = UserMessage(r.code)
            /\ r.originalError.kind = "Error"
            /\ e.kind = "Error" => r.originalError = e

\* ------------------------------------------- getTransactionHistory (run)
\* One run of getTransactionHistory(address) for the connected wallet's
\* address, step by step: the listing of the signatures, then one fetch per
\* signature.  The ledger is the environment: it holds `ledger` signatures,
\* newest first, named by their position 1, 2, ...

\* The `limit` the code passes to getSignaturesForAddress.
SignatureLimit == 10

\* The largest number of signatures the ledger holds for the address.
MaxLedger == 11

Min(a, b) == IF a <= b THEN a ELSE b

\* What getSignaturesForAddress(publicKey, {limit}) resolves to.
getSignaturesForAddress(ledger, limit) == [k \in 1..Min(ledger, limit) |-> k]

\* A record getParsedTransaction resolves to for a signature.
FetchedRecord(sig, meta) ==
    [meta |-> meta, transaction |-> TRUE, err |-> FALSE, blockTime |-> 1700,
     signature |-> sig, instructions |-> <<>>]

\* The state all the other variables have while a run or a component other
\* than GaslessTransfer is examined.
TransferIdle ==
    /\ Mounted
    /\ recording = FALSE
    /\ call = NoCall
    /\ result = Pending

InitFetch ==
    /\ TransferIdle
    /\ dashboard = Absent
    /\ historyView = Absent
    /\ passkey = Absent
    /\ \E n \in 0..MaxLedger :
          fetcher = [pc |-> "listing", ledger |-> n, listed |-> FALSE,
                     signatures |-> <<>>, i |-> 0, transactions |-> <<>>,
                     classified |-> {}, error |-> ""]

notFetcher == <<componentVars, call, result, dashboard, historyView, passkey>>

\* await connection.getSignaturesForAddress(publicKey, { limit: 10 });
\* an empty list returns [] at once.
ListSignatures ==
    /\ fetcher.pc = "listing"
    /\ LET signatures == getSignaturesForAddress(fetcher.ledger, SignatureLimit)
       IN fetcher' = [fetcher EXCEPT
                        !.listed = TRUE,
                        !.signatures = signatures,
                        !.i = 1,
                        !.pc = IF Len(signatures) = 0 THEN "returned" ELSE "loop"]
    /\ UNCHANGED notFetcher

\* The listing rejects: the outer catch rethrows.
ListFails ==
    /\ fetcher.pc = "listing"
    /\ fetcher' = [fetcher EXCEPT
                     !.pc = "failed",
                     !.error = "Failed to fetch transaction history"]
    /\ UNCHANGED notFetcher

\* The end of one iteration of `for (const sig of signatures)`: the next
\* signature, or `return transactions` after the last.
NextSignature(transactions, classified) ==
    fetcher' = [fetcher EXCEPT
                  !.transactions = transactions,
                  !.classified = classified,
                  !.i = @ + 1,
                  !.pc = IF fetcher.i = Len(fetcher.signatures)
                         THEN "returned" ELSE "loop"]

\* A variant in which a rejected record fetch fails the whole call.
RecordThrows_FailsCall ==
    /\ fetcher.pc = "loop"
    /\ fetcher' = [fetcher EXCEPT
                     !.pc = "failed",
                     !.error = "Failed to fetch transaction history"]
    /\ UNCHANGED notFetcher

\* getParsedTransaction rejects (or parseTransaction throws): the inner
\* catch continues with the next signature.
RecordThrows ==
    /\ fetcher.pc = "loop"
    /\ NextSignature(fetcher.transactions, fetcher.classified)
    /\ UNCHANGED notFetcher

\* getParsedTransaction resolves to null: `if (tx)` skips it.
RecordEmpty ==
    /\ fetcher.pc = "loop"
    /\ NextSignature(fetcher.transactions, fetcher.classified)
    /\ UNCHANGED notFetcher

\* getParsedTransaction resolves to a record: it is classified, and pushed
\* unless parseTransaction returned None.
RecordFetched ==
    /\ fetcher.pc = "loop"
    /\ \E meta \in BOOLEAN, now \in Times :
          LET sig == fetcher.signatures[fetcher.i]
              parsed == parseTransaction(FetchedRecord(sig, meta), Owner, now)
          IN IF parsed # None
             THEN NextSignature(Append(fetcher.transactions, parsed[1]),
                                fetcher.classified \cup {sig})
             ELSE NextSignature(fetcher.transactions, fetcher.classified)
    /\ UNCHANGED notFetcher

NextFetch ==
    \/ ListSignatures
    \/ ListFails
    \/ RecordThrows
    \/ RecordEmpty
    \/ RecordFetched

FetchSpec == InitFetch /\ [][NextFetch]_vars

\* The signatures of the records a run holds, in the order it holds them.
ReturnedSignatures == [k \in 1..Len(fetcher.transactions) |->
                          fetcher.transactions[k].signature]

C27_MaxIsAdmissible ==
    (call.fn = "maxAmount" /\ result.returned /\ call.usdcBalance > 0)
        => LET amountNum == parseFloat(result.value)
           IN  /\ ~LeZero(amountNum)
               /\ ~ExceedsBalance(TimesMillion(amountNum), call.usdcBalance)
               /\ validateTransfer(Owner, amountNum, call.usdcBalance) = NULL
               /\ toSmallestUnits(result.value, "USDC") >= 1
               /\ toSmallestUnits(result.value, "USDC") <= call.usdcBalance

\* ------------------------------------------------------- WalletDashboard
\* The WalletDashboard component: its state (isLoading, error, the two
\* balances), its refs (isFetchingRef, hasFetchedRef, lastFetchTimeRef) and
\* the balance fetches awaiting their RPC answers.  A balance fetch is the
\* awaited Promise.all of getSOLBalance and getUSDCBalance; it settles as
\* Promise.all settles.  inFlight counts the fetches that were started and
\* have not settled; settled tells that the last step settled one.

\* The most balance or history fetches outstanding at a time.
MaxFetches == 2

\* The mount effect runs once, and once more where React invokes effects
\* twice (Strict Mode).
EffectRuns == 2

Wallets == {"walletA", "walletB"}
FetchedBalances == {0, 1000000}
BalanceFetchFailed == "Failed to fetch balances"

\* lastFetchTimeRef is held against Date.now(): "never" set, set less than
\* MIN_FETCH_INTERVAL_MS ago ("recent"), or set longer ago ("old").

InitDashboard ==
    /\ TransferIdle
    /\ fetcher = Absent
    /\ historyView = Absent
    /\ passkey = Absent
    /\ dashboard = [pc |-> "mounted", wallet |-> "walletA", effects |-> 0,
                    solBalance |-> NULL, usdcBalance |-> NULL,
                    isLoading |-> TRUE, error |-> NULL, toast |-> NULL,
                    lastFetchTimeRef |-> "never", isFetchingRef |-> FALSE,
                    hasFetchedRef |-> FALSE, inFlight |-> 0, settled |-> FALSE]

notDashboard == <<componentVars, call, result, fetcher, historyView, passkey>>

\* A variant of fetchBalances without the isFetchingRef check.
fetchBalances_NoGuard(d, force) ==
    IF d.wallet = NULL THEN d
    ELSE IF ~force /\ d.lastFetchTimeRef = "recent" THEN d
    ELSE [d EXCEPT !.isFetchingRef = TRUE, !.isLoading = TRUE,
                   !.error = NULL, !.inFlight = @ + 1]

\* fetchBalances(force), up to its await: the component after the call.
fetchBalances(d, force) ==
    IF d.wallet = NULL THEN d
    ELSE IF d.isFetchingRef THEN d
    ELSE IF ~force /\ d.lastFetchTimeRef = "recent" THEN d
    ELSE [d EXCEPT !.isFetchingRef = TRUE, !.isLoading = TRUE,
                   !.error = NULL, !.inFlight = @ + 1]

\* The effect's body: fetch unless a fetch has completed for this wallet.
effectBody(d) == IF ~d.hasFetchedRef THEN fetchBalances(d, FALSE) ELSE d

\* The effect's cleanup.
effectCleanup(d) == [d EXCEPT !.hasFetchedRef = FALSE]

\* The effect runs at mount; where effects are invoked twice, its cleanup
\* and then its body run once more.
MountEffect ==
    /\ dashboard.pc = "mounted"
    /\ dashboard.effects < EffectRuns
    /\ LET d == [dashboard EXCEPT !.effects = @ + 1, !.settled = FALSE]
       IN dashboard' = IF dashboard.effects = 0 THEN effectBody(d)
                       ELSE effectBody(effectCleanup(d))
    /\ dashboard'.inFlight <= MaxFetches
    /\ UNCHANGED notDashboard

\* useWallet() reports another wallet: the effect's cleanup, then its body
\* with the fetchBalances of the new render.
WalletChange ==
    /\ dashboard.pc = "mounted"
    /\ dashboard.effects > 0
    /\ \E w \in Wallets \ {dashboard.wallet} :
          dashboard' = effectBody(effectCleanup(
                          [dashboard EXCEPT !.wallet = w, !.settled = FALSE]))
    /\ dashboard'.inFlight <= MaxFetches
    /\ UNCHANGED notDashboard

\* Refresh Balances button, disabled while isLoading.
RefreshClick ==
    /\ dashboard.pc = "mounted"
    /\ ~dashboard.isLoading
    /\ dashboard' = fetchBalances([dashboard EXCEPT !.settled = FALSE], TRUE)
    /\ dashboard'.inFlight <= MaxFetches
    /\ UNCHANGED notDashboard

\* Retry button of the error panel, rendered while error is set.
RetryClick ==
    /\ dashboard.pc = "mounted"
    /\ dashboard.error # NULL
    /\ dashboard' = fetchBalances([dashboard EXCEPT !.settled = FALSE], TRUE)
    /\ dashboard'.inFlight <= MaxFetches
    /\ UNCHANGED notDashboard

\* Both balance requests resolve: the try block, then the finally block.
BalancesArrive ==
    /\ dashboard.pc = "mounted"
    /\ dashboard.inFlight > 0
    /\ \E sol \in FetchedBalances, usdc \in FetchedBalances :
          dashboard' = [dashboard EXCEPT
                          !.solBalance = sol,
                          !.usdcBalance = usdc,
                          !.lastFetchTimeRef = "recent",
                          !.hasFetchedRef = TRUE,
                          !.isLoading = FALSE,
                          !.isFetchingRef = FALSE,
                          !.inFlight = @ - 1,
                          !.settled = TRUE]
    /\ UNCHANGED notDashboard

\* A balance request rejects: the catch block, then the finally block.
BalancesFail ==
    /\ dashboard.pc = "mounted"
    /\ dashboard.inFlight > 0
    /\ dashboard' = [dashboard EXCEPT
                       !.error = BalanceFetchFailed,
                       !.toast = BalanceFetchFailed,
                       !.isLoading = FALSE,
                       !.isFetchingRef = FALSE,
                       !.inFlight = @ - 1,
                       !.settled = TRUE]
    /\ UNCHANGED notDashboard

\* MIN_FETCH_INTERVAL_MS elapse after the last completed fetch.
IntervalElapses ==
    /\ dashboard.pc = "mounted"
    /\ dashboard.lastFetchTimeRef = "recent"
    /\ dashboard' = [dashboard EXCEPT !.lastFetchTimeRef = "old",
                                      !.settled = FALSE]
    /\ UNCHANGED notDashboard

\* The error toast goes away.
DashboardToastGone ==
    /\ dashboard.pc = "mounted"
    /\ dashboard.toast # NULL
    /\ dashboard' = [dashboard EXCEPT !.toast = NULL, !.settled = FALSE]
    /\ UNCHANGED notDashboard

NextDashboard ==
    \/ MountEffect
    \/ WalletChange
    \/ RefreshClick
    \/ RetryClick
    \/ BalancesArrive
    \/ BalancesFail
    \/ IntervalElapses
    \/ DashboardToastGone

DashboardSpec == InitDashboard /\ [][NextDashboard]_vars

\* C28: fetchBalances is single-flight: the in-flight guard is set exactly
\* while one balance fetch is outstanding, never more than one is (a call
\* arriving meanwhile starts none), and right after a fetch settled, by
\* success or by failure, the guard and the loading flag are clear.
C28_SingleFlight ==
    /\ dashboard.inFlight <= 1
    /\ dashboard.isFetchingRef <=> dashboard.inFlight = 1
    /\ dashboard.settled => ~dashboard.isFetchingRef /\ ~dashboard.isLoading

\* The effect ran a second time while the fetch of its first run was still
\* outstanding.
C28_Witness ==
    /\ dashboard.pc = "mounted"
    /\ dashboard.effects = EffectRuns
    /\ dashboard.inFlight = 1
    /\ dashboard.lastFetchTimeRef = "never"

\* ---------------------------------------------------- TransactionHistory
\* The TransactionHistory component: its walletAddress prop, its state
\* (transactions, isLoading, error), the error toasts holding a
\* fetchTransactions closure for Retry, and the history fetches awaiting
\* getTransactionHistory.  A fetch is named by the wallet its closure
\* captured and by whether it is the most recently started fetch for the
\* current walletAddress (latest); transactions and error carry the name of
\* the fetch that set them, and latestResult tells how the latest fetch
\* settled.

InitHistoryView ==
    /\ TransferIdle
    /\ fetcher = Absent
    /\ dashboard = Absent
    /\ passkey = Absent
    /\ historyView = [pc |-> "mounted", walletAddress |-> "walletA",
                      effectRan |-> FALSE, transactions |-> "initial",
                      isLoading |-> TRUE, error |-> NULL, toasts |-> {},
                      inFlight |-> EmptyBag, latestResult |-> "none"]

notHistoryView == <<componentVars, call, result, fetcher, dashboard, passkey>>

\* The fetches of a bag, none of them the latest any more.
Superseded(fetches) ==
    LET old(w) == CopiesIn([wallet |-> w, latest |-> TRUE], fetches)
                  + CopiesIn([wallet |-> w, latest |-> FALSE], fetches)
    IN  [f \in {[wallet |-> w, latest |-> FALSE] :
                    w \in {x \in Wallets : old(x) > 0}}
            |-> old(f.wallet)]

Aged(name) == IF name = "latest" THEN "stale" ELSE name

\* fetchTransactions of the render with walletAddress w, up to its await:
\* setIsLoading(true), setError(null), and getTransactionHistory(w) called.
fetchTransactions(h, w) ==
    IF w = h.walletAddress
    THEN [h EXCEPT !.isLoading = TRUE,
                   !.error = NULL,
                   !.transactions = Aged(@),
                   !.latestResult = "pending",
                   !.inFlight = Superseded(@)
                                  (+) SetToBag({[wallet |-> w, latest |-> TRUE]})]
    ELSE [h EXCEPT !.isLoading = TRUE,
                   !.error = NULL,
                   !.inFlight = @ (+) SetToBag({[wallet |-> w, latest |-> FALSE]})]

\* The effect at mount.
HistoryMount ==
    /\ historyView.pc = "mounted"
    /\ ~historyView.effectRan
    /\ historyView' = fetchTransactions([historyView EXCEPT !.effectRan = TRUE],
                                        historyView.walletAddress)
    /\ UNCHANGED notHistoryView

\* The walletAddress prop changes: fetchTransactions is rebuilt and the
\* effect calls it.
HistoryWalletChange ==
    /\ historyView.pc = "mounted"
    /\ historyView.effectRan
    /\ BagCardinality(historyView.inFlight) < MaxFetches
    /\ \E w \in Wallets \ {historyView.walletAddress} :
          historyView' = fetchTransactions(
                            [historyView EXCEPT !.walletAddress = w,
                                                !.latestResult = "none",
                                                !.transactions = Aged(@),
                                                !.error = Aged(@),
                                                !.inFlight = Superseded(@)], w)
    /\ UNCHANGED notHistoryView

\* Refresh button (disabled while isLoading), or Retry in the error panel
\* (rendered while not loading and error is set).
HistoryRefresh ==
    /\ historyView.pc = "mounted"
    /\ historyView.effectRan
    /\ ~historyView.isLoading
    /\ BagCardinality(historyView.inFlight) < MaxFetches
    /\ historyView' = fetchTransactions(historyView, historyView.walletAddress)
    /\ UNCHANGED notHistoryView

\* Retry on an error toast: the fetchTransactions the failed fetch was
\* started with, whatever the walletAddress is now; the toast goes away.
HistoryToastRetry ==
    /\ historyView.pc = "mounted"
    /\ BagCardinality(historyView.inFlight) < MaxFetches
    /\ \E w \in historyView.toasts :
          historyView' = fetchTransactions(
                            [historyView EXCEPT !.toasts = @ \ {w}], w)
    /\ UNCHANGED notHistoryView

\* An error toast goes away.
HistoryToastGone ==
    /\ historyView.pc = "mounted"
    /\ \E w \in historyView.toasts :
          historyView' = [historyView EXCEPT !.toasts = @ \ {w}]
    /\ UNCHANGED notHistoryView

Name(f) == IF f.latest THEN "latest" ELSE "stale"

\* getTransactionHistory resolves: setTransactions(txs), then the finally
\* block.
HistoryArrives ==
    /\ historyView.pc = "mounted"
    /\ \E f \in BagToSet(historyView.inFlight) :
          historyView' = [historyView EXCEPT
                            !.transactions = Name(f),
                            !.isLoading = FALSE,
                            !.latestResult = IF f.latest THEN "ok" ELSE @,
                            !.inFlight = @ (-) SetToBag({f})]
    /\ UNCHANGED notHistoryView

\* getTransactionHistory rejects: setError, an error toast with Retry, then
\* the finally block.
HistoryFails ==
    /\ historyView.pc = "mounted"
    /\ \E f \in BagToSet(historyView.inFlight) :
          historyView' = [historyView EXCEPT
                            !.error = Name(f),
                            !.toasts = @ \cup {f.wallet},
                            !.isLoading = FALSE,
                            !.latestResult = IF f.latest THEN "failed" ELSE @,
                            !.inFlight = @ (-) SetToBag({f})]
    /\ UNCHANGED notHistoryView

NextHistoryView ==
    \/ HistoryMount
    \/ HistoryWalletChange
    \/ HistoryRefresh
    \/ HistoryToastRetry
    \/ HistoryToastGone
    \/ HistoryArrives
    \/ HistoryFails

HistoryViewSpec == InitHistoryView /\ [][NextHistoryView]_vars

\* C29: once every history fetch has settled, the list and the error on
\* display are those of the most recently started fetch for the current
\* walletAddress, in whatever order the responses came; and the loading
\* skeleton shows while any fetch is in flight.
C29_LatestFetchWins ==
    /\ (historyView.pc = "mounted" /\ historyView.effectRan
            /\ historyView.inFlight = EmptyBag)
          => /\ historyView.latestResult = "ok"
                  => historyView.transactions = "latest" /\ historyView.error = NULL
             /\ historyView.latestResult = "failed"
                  => historyView.error = "latest"
    /\ (historyView.pc = "mounted" /\ historyView.inFlight # EmptyBag)
          => historyView.isLoading

\* ------------------------------------------------------------ PasskeyAuth
\* The PasskeyAuth component and one authentication attempt at a time (the
\* button is disabled while the SDK connects): the SDK's smartWalletPubkey,
\* the value of it that handleAuth's closure captured at the click, the
\* component's error, and what the attempt did: whether connect() was
\* called, how the attempt ended, and the callbacks it fired with their
\* arguments.

Modes == {"create", "signin"}
BrowserUnsupported ==
    [code |-> "BROWSER_UNSUPPORTED",
     message |-> "Passkeys are not available. This may be due to using a remote desktop or VM. Please use a local Chrome, Safari, or Edge browser."]
NoCallbacks == [onSuccess |-> 0, onError |-> 0, wallet |-> NULL, error |-> None]

InitPasskey ==
    /\ TransferIdle
    /\ fetcher = Absent
    /\ dashboard = Absent
    /\ historyView = Absent
    /\ \E mode \in Modes :
          passkey = [pc |-> "idle", mode |-> mode, smartWalletPubkey |-> NULL,
                     captured |-> NULL, error |-> None, connectCalled |-> FALSE,
                     outcome |-> "none", thrown |-> None, fired |-> NoCallbacks]

notPasskey == <<componentVars, call, result, fetcher, dashboard, historyView>>

\* The Create Wallet / Sign In button or Try Again: handleAuth up to its
\* first await, with the smartWalletPubkey of the render it was built in.
ClickAuth ==
    /\ passkey.pc \in {"idle", "done"}
    /\ passkey' = [passkey EXCEPT !.pc = "checking",
                                  !.captured = passkey.smartWalletPubkey,
                                  !.error = None,
                                  !.connectCalled = FALSE,
                                  !.outcome = "none",
                                  !.thrown = None,
                                  !.fired = NoCallbacks]
    /\ UNCHANGED notPasskey

\* isPlatformAuthenticatorAvailable() resolves to false.
AuthenticatorUnavailable ==
    /\ passkey.pc = "checking"
    /\ passkey' = [passkey EXCEPT !.pc = "done",
                                  !.outcome = "unavailable",
                                  !.error = Some(BrowserUnsupported),
                                  !.fired.onError = @ + 1,
                                  !.fired.error = Some(BrowserUnsupported)]
    /\ UNCHANGED notPasskey

\* isPlatformAuthenticatorAvailable() resolves to true: connect() is called.
AuthenticatorAvailable ==
    /\ passkey.pc = "checking"
    /\ passkey' = [passkey EXCEPT !.pc = "connecting", !.connectCalled = TRUE]
    /\ UNCHANGED notPasskey

\* connect() resolves and the SDK holds the wallet: onSuccess is called if
\* the closure's smartWalletPubkey is set, with that value.
ConnectResolves ==
    /\ passkey.pc = "connecting"
    /\ \E w \in Wallets :
          passkey' = [passkey EXCEPT
                        !.pc = "done",
                        !.outcome = "resolved",
                        !.smartWalletPubkey = w,
                        !.fired.onSuccess = IF passkey.captured # NULL
                                            THEN @ + 1 ELSE @,
                        !.fired.wallet = IF passkey.captured # NULL
                                         THEN passkey.captured ELSE @]
    /\ UNCHANGED notPasskey

\* connect() rejects: the catch block maps the thrown value.
ConnectRejects ==
    /\ passkey.pc = "connecting"
    /\ \E err \in ThrownValues :
          LET authError == mapError(err)
          IN passkey' = [passkey EXCEPT
                           !.pc = "done",
                           !.outcome = "rejected",
                           !.thrown = Some(authError),
                           !.error = Some(authError),
                           !.fired.onError = @ + 1,
                           !.fired.error = Some(authError)]
    /\ UNCHANGED notPasskey

\* The SDK's wallet is disconnected between attempts.
WalletDisconnects ==
    /\ passkey.pc = "done"
    /\ passkey.smartWalletPubkey # NULL
    /\ passkey' = [passkey EXCEPT !.smartWalletPubkey = NULL]
    /\ UNCHANGED notPasskey

NextPasskey ==
    \/ ClickAuth
    \/ AuthenticatorUnavailable
    \/ AuthenticatorAvailable
    \/ ConnectResolves
    \/ ConnectRejects
    \/ WalletDisconnects

PasskeySpec == InitPasskey /\ [][NextPasskey]_vars

\* C30: an attempt that has completed fired exactly one callback: onSuccess
\* with the connected wallet's key when connect() resolved, also when no
\* wallet was connected before the click; onError with the mapped error
\* when the authenticator was unavailable (connect() not called) or
\* connect() rejected.
C30_ExactlyOneCallback ==
    passkey.pc = "done"
        => /\ passkey.fired.onSuccess + passkey.fired.onError = 1
           /\ passkey.outcome = "resolved"
                => /\ passkey.fired.onSuccess = 1
                   /\ passkey.fired.wallet \in Wallets
           /\ passkey.outcome = "unavailable"
                => /\ passkey.fired.onError = 1
                   /\ passkey.fired.error = Some(BrowserUnsupported)
                   /\ ~passkey.connectCalled
           /\ passkey.outcome = "rejected"
                => /\ passkey.fired.onError = 1
                   /\ passkey.fired.error = passkey.thrown

====
